---- MODULE Spec2Model ----
(***************************************************************************)
(* Activation layers of trax/layers/activation_fns.py.                     *)
(*                                                                         *)
(* Numbers are fixed-point: the integer v stands for the real v / One.     *)
(* The three non-finite floating-point values are PosInf, NegInf and NaN.  *)
(* A tensor is a record [shape, dtype, data] whose data is the flat        *)
(* sequence of its elements.                                               *)
(***************************************************************************)
EXTENDS Integers, Sequences, FiniteSets, TLC

VARIABLES tensor, weights, prev, op, arg, a, ret

vars == <<tensor, weights, prev, op, arg, a, ret>>

\* ---------------------------------------------------------------- bounds
MaxK == 3
MaxA == 2
MaxDim == 2

\* ------------------------------------------------------------ the numbers
One == 4
Half == One \div 2

PosInf == One * (MaxK + 2) * (MaxA + 2)
NegInf == 0 - PosInf
NaN == PosInf + 1

Finite == {Half * k : k \in (0 - MaxK)..MaxK}
Vals == Finite \cup {NegInf, PosInf, NaN}
Slopes == {Half * k : k \in (0 - MaxA)..MaxA}

IsNaN(v) == v = NaN
IsInf(v) == v = PosInf \/ v = NegInf
Sign(v) == IF v > 0 THEN 1 ELSE IF v < 0 THEN 0 - 1 ELSE 0

\* elementwise kernels of the array library, on one element
Maximum(x, y) == IF IsNaN(x) \/ IsNaN(y) THEN NaN ELSE IF x >= y THEN x ELSE y

Minimum(x, y) == IF IsNaN(x) \/ IsNaN(y) THEN NaN ELSE IF x <= y THEN x ELSE y

Add(x, y) ==
  IF IsNaN(x) \/ IsNaN(y) THEN NaN
  ELSE IF IsInf(x) /\ IsInf(y) THEN (IF x = y THEN x ELSE NaN)
  ELSE IF IsInf(x) THEN x
  ELSE IF IsInf(y) THEN y
  ELSE x + y

Multiply(x, y) ==
  IF IsNaN(x) \/ IsNaN(y) THEN NaN
  ELSE IF IsInf(x) \/ IsInf(y)
       THEN (IF x = 0 \/ y = 0 THEN NaN ELSE Sign(x) * Sign(y) * PosInf)
  ELSE (x * y) \div One

GreaterEqual(x, y) == ~IsNaN(x) /\ ~IsNaN(y) /\ x >= y

\* ------------------------------------------------------------ the tensors
Dtypes == {"float16", "float32", "float64"}

DtypeRank(d) ==
  IF d = "weak" THEN 0 ELSE IF d = "float16" THEN 1 ELSE IF d = "float32" THEN 2 ELSE 3

\* result dtype of a binary elementwise operation; a Python scalar ("weak")
\* takes the dtype of the array operand
PromoteTypes(d1, d2) == IF DtypeRank(d1) >= DtypeRank(d2) THEN d1 ELSE d2

\* shapes of rank 0, 1 and 3
Shapes == {<<>>, <<MaxDim>>, <<1, MaxDim, 1>>}

RECURSIVE Size(_)
Size(s) == IF s = <<>> THEN 1 ELSE Head(s) * Size(Tail(s))

Tensors ==
  UNION {{[shape |-> s, dtype |-> d, data |-> dat] :
            d \in Dtypes, dat \in [1..Size(s) -> Vals]} : s \in Shapes}

\* input signatures: shape and dtype, no data
Signatures == {[shape |-> s, dtype |-> d, data |-> <<>>] : s \in Shapes, d \in Dtypes}

\* a Python scalar literal used as an operand
Scalar(v) == [shape |-> <<>>, dtype |-> "weak", data |-> <<v>>]

\* the value None
None == [shape |-> <<>>, dtype |-> "none", data |-> <<>>]

\* the exception the framework raises
Error == [shape |-> <<>>, dtype |-> "error", data |-> <<>>]

\* base.Layer's weights before initialization: the empty tuple
EMPTY_WEIGHTS == [shape |-> <<>>, dtype |-> "empty", data |-> <<>>]

Broadcast(s1, s2) == IF s1 = <<>> THEN s2 ELSE s1

At(x, i) == IF x.shape = <<>> THEN x.data[1] ELSE x.data[i]

\* the element indices of the broadcast of x and y
Indices(x, y) == 1..Size(Broadcast(x.shape, y.shape))

\* the result of a binary elementwise operation on x and y with elements dat
Binary(x, y, dat) ==
  [shape |-> Broadcast(x.shape, y.shape),
   dtype |-> PromoteTypes(x.dtype, y.dtype),
   data  |-> dat]

maximum(x, y) == Binary(x, y, [i \in Indices(x, y) |-> Maximum(At(x, i), At(y, i))])

minimum(x, y) == Binary(x, y, [i \in Indices(x, y) |-> Minimum(At(x, i), At(y, i))])

add(x, y) == Binary(x, y, [i \in Indices(x, y) |-> Add(At(x, i), At(y, i))])

multiply(x, y) == Binary(x, y, [i \in Indices(x, y) |-> Multiply(At(x, i), At(y, i))])

\* x >= y, a tensor of booleans
greater_equal(x, y) ==
  [shape |-> Broadcast(x.shape, y.shape),
   dtype |-> "bool",
   data  |-> [i \in Indices(x, y) |-> GreaterEqual(At(x, i), At(y, i))]]

zeros(shape, dtype) ==
  [shape |-> shape, dtype |-> dtype, data |-> [i \in 1..Size(shape) |-> 0]]

zeros_like(x) == zeros(x.shape, x.dtype)

where(c, x, y) == Binary(x, y, [i \in Indices(x, y) |-> IF At(c, i) THEN At(x, i) ELSE At(y, i)])

\* ------------------------------------------------- the stateless layers
\* Relu taking the minimum instead of the maximum
Relu_min(x) == minimum(x, zeros_like(x))

Relu(x) == maximum(x, zeros_like(x))

ParametricRelu(slope, x) == maximum(multiply(Scalar(slope), x), zeros_like(x))

LeakyRelu(slope, x) == where(greater_equal(x, Scalar(0)), x, multiply(Scalar(slope), x))

\* HardSigmoid without the shift by one
HardSigmoid_noshift(x) == maximum(Scalar(0), minimum(Scalar(One), x))

HardSigmoid(x) == maximum(Scalar(0), minimum(Scalar(One), add(Scalar(One), x)))

\* HardTanh with the lower bound of HardSigmoid
HardTanh_lower0(x) == maximum(Scalar(0), minimum(Scalar(One), x))

HardTanh(x) == maximum(Scalar(0 - One), minimum(Scalar(One), x))

\* ------------------------------------------------------------- the state
\* tensor  : the tensor the caller feeds to the layers
\* weights : ThresholdedLinearUnit's self.weights
\* prev    : self.weights as it was when the last call started
\* op, arg, a, ret : the last call, its argument, its slope, its result
Init ==
  /\ tensor \in Tensors
  /\ weights = EMPTY_WEIGHTS
  /\ prev = EMPTY_WEIGHTS
  /\ op = "construct"
  /\ arg = None
  /\ a = 0
  /\ ret = None

Ready(w) == w # EMPTY_WEIGHTS

\* init_weights_and_state that keeps the weight of a layer that is ready
init_weights_and_state_once(input_signature) ==
  /\ weights' = IF Ready(weights) THEN weights ELSE zeros(<<>>, "float32")
  /\ prev' = weights
  /\ op' = "init_weights_and_state"
  /\ arg' = input_signature
  /\ a' = 0
  /\ ret' = None
  /\ UNCHANGED tensor

\* init_weights_and_state that shapes the weight like the input
init_weights_and_state_like(input_signature) ==
  /\ weights' = zeros(input_signature.shape, input_signature.dtype)
  /\ prev' = weights
  /\ op' = "init_weights_and_state"
  /\ arg' = input_signature
  /\ a' = 0
  /\ ret' = None
  /\ UNCHANGED tensor

\* ThresholdedLinearUnit.init_weights_and_state
init_weights_and_state(input_signature) ==
  /\ weights' = zeros(<<>>, "float32")
  /\ prev' = weights
  /\ op' = "init_weights_and_state"
  /\ arg' = input_signature
  /\ a' = 0
  /\ ret' = None
  /\ UNCHANGED tensor

\* forward with a constant zero threshold
forward_zero(inputs) ==
  /\ ret' = IF Ready(weights) THEN maximum(inputs, zeros(<<>>, "float32")) ELSE Error
  /\ weights' = weights
  /\ prev' = weights
  /\ op' = "forward"
  /\ arg' = inputs
  /\ a' = 0
  /\ UNCHANGED tensor

\* forward that re-initializes the weight
forward_reset(inputs) ==
  /\ ret' = IF Ready(weights) THEN maximum(inputs, weights) ELSE Error
  /\ weights' = IF Ready(weights) THEN zeros(<<>>, "float32") ELSE weights
  /\ prev' = weights
  /\ op' = "forward"
  /\ arg' = inputs
  /\ a' = 0
  /\ UNCHANGED tensor

\* ThresholdedLinearUnit.forward; with unbound weights the call raises
forward(inputs) ==
  /\ ret' = IF Ready(weights) THEN maximum(inputs, weights) ELSE Error
  /\ weights' = weights
  /\ prev' = weights
  /\ op' = "forward"
  /\ arg' = inputs
  /\ a' = 0
  /\ UNCHANGED tensor

\* the optimizer of the framework writes the weight of an initialized layer
set_weights(t) ==
  /\ Ready(weights)
  /\ weights' = [weights EXCEPT !.data = <<t>>]
  /\ prev' = weights
  /\ op' = "set_weights"
  /\ arg' = Scalar(t)
  /\ a' = 0
  /\ ret' = None
  /\ UNCHANGED tensor

Next ==
  \/ \E input_signature \in Signatures : init_weights_and_state(input_signature)
  \/ forward(tensor)
  \/ \E t \in Vals : set_weights(t)

Spec == Init /\ [][Next]_vars

\* a call of a stateless layer built by Fn(name, f)
Fn(name, slope, inputs, outputs) ==
  /\ op' = name
  /\ a' = slope
  /\ arg' = inputs
  /\ ret' = outputs
  /\ UNCHANGED <<tensor, weights, prev>>

CallRelu(inputs) == Fn("Relu", 0, inputs, Relu(inputs))

CallParametricRelu(slope, inputs) ==
  Fn("ParametricRelu", slope, inputs, ParametricRelu(slope, inputs))

CallLeakyRelu(slope, inputs) ==
  Fn("LeakyRelu", slope, inputs, LeakyRelu(slope, inputs))

CallHardSigmoid(inputs) == Fn("HardSigmoid", 0, inputs, HardSigmoid(inputs))

CallHardTanh(inputs) == Fn("HardTanh", 0, inputs, HardTanh(inputs))

NextFn ==
  \/ CallRelu(tensor)
  \/ \E slope \in Slopes : CallParametricRelu(slope, tensor)
  \/ \E slope \in Slopes : CallLeakyRelu(slope, tensor)
  \/ CallHardSigmoid(tensor)
  \/ CallHardTanh(tensor)

SpecFn == Init /\ [][NextFn]_vars

\* ------------------------------------------------------------ properties
Elems(t) == 1..Len(t.data)

AllFinite(t) == \A i \in Elems(t) : t.data[i] \in Finite

\* IEEE equality: NaN equals nothing
Eq(u, v) == ~IsNaN(u) /\ ~IsNaN(v) /\ u = v

InRange(v, lo, hi) == ~IsNaN(v) /\ lo <= v /\ v <= hi

\* m is the maximum of u and v: the larger of the two, NaN if one is NaN
IsMax(m, u, v) ==
  IF IsNaN(u) \/ IsNaN(v) THEN IsNaN(m)
  ELSE m >= u /\ m >= v /\ m \in {u, v}

ZeroWeight == [shape |-> <<>>, dtype |-> "float32", data |-> <<0>>]

\* C1: after init_weights_and_state the weight is 0, and every forward of a
\* ready layer returns, element by element, the maximum of the input and the
\* current weight (0 after initialization, t after the weight was set to t).
C1_ForwardIsMax ==
  /\ (op = "init_weights_and_state" => weights.data = <<0>>)
  /\ (op = "forward" /\ Ready(weights) =>
        /\ Len(ret.data) = Len(arg.data)
        /\ \A i \in Elems(arg) : IsMax(ret.data[i], arg.data[i], weights.data[1]))

C1_Witness ==
  /\ op = "forward"
  /\ Ready(weights)
  /\ weights.data[1] \in Finite \ {0}
  /\ \E i \in Elems(arg) : arg.data[i] \in Finite /\ arg.data[i] < weights.data[1]
  /\ \E i \in Elems(arg) : ret.data[i] = weights.data[1]

\* C2 as stated: once the layer is ready, a later call of the initialization
\* hook does not bind the weight again.
C2_InitOnlyOnce ==
  (op = "init_weights_and_state" /\ Ready(prev)) => weights = prev

\* C2 as amended: the layer becomes ready only by a call of the hook, a ready
\* layer stays ready under every call, and a call of the hook on a ready
\* layer binds the weight to zero again.
C2_ReadyStaysReady ==
  /\ (Ready(prev) => Ready(weights))
  /\ (~Ready(prev) /\ Ready(weights) => op = "init_weights_and_state")
  /\ (op = "init_weights_and_state" /\ Ready(prev) => weights = ZeroWeight)

C2_Witness ==
  /\ op = "init_weights_and_state"
  /\ Ready(prev)
  /\ prev.data # <<0>>
  /\ weights.data = <<0>>

\* C3 as stated: after the initialization only the optimizer changes the
\* weight.
C3_OnlyOptimizerWrites ==
  (Ready(prev) /\ weights # prev) => op = "set_weights"

\* C3 as amended: forward leaves the weight unchanged, and the weight changes
\* only by a write of the optimizer or by a call of init_weights_and_state,
\* which sets it to zero.
C3_ForwardKeepsWeight ==
  /\ (op = "forward" => weights = prev)
  /\ (weights # prev => op \in {"set_weights", "init_weights_and_state"})
  /\ (weights # prev /\ op = "init_weights_and_state" => weights.data = <<0>>)

C3_Witness ==
  /\ op = "forward"
  /\ Ready(weights)
  /\ weights.data[1] \in Finite \ {0}
  /\ weights = prev
  /\ ret # Error

\* C4: ThresholdedLinearUnit.forward returns a tensor of the shape and the
\* dtype of its input, for every input dtype.
C4_ForwardKeepsShapeAndDtype ==
  (op = "forward" /\ Ready(weights)) =>
    (ret.shape = arg.shape /\ ret.dtype = arg.dtype)

\* C5: for finite x, Relu(x) is the maximum of x and 0, and Relu applied to
\* its own result returns that result.
C5_ReluMaxIdempotent ==
  (op = "Relu" /\ AllFinite(arg)) =>
    /\ \A i \in Elems(arg) : ret.data[i] = (IF arg.data[i] >= 0 THEN arg.data[i] ELSE 0)
    /\ Relu(ret) = ret

C5_Witness ==
  /\ op = "Relu"
  /\ AllFinite(arg)
  /\ \E i \in Elems(arg) : arg.data[i] < 0 /\ ret.data[i] = 0

Clamped(v, lo, hi) == IF v <= lo THEN lo ELSE IF v >= hi THEN hi ELSE v

C8_HardSigmoidAsDocumented ==
  (op = "HardSigmoid" /\ AllFinite(arg)) =>
    \A i \in Elems(arg) :
      ret.data[i] = (IF arg.data[i] <= 0 THEN 0
                     ELSE IF arg.data[i] < One THEN arg.data[i]
                     ELSE One)

\* C9: ParametricRelu(a) computes the function of its documentation: 0 if
\* x <= 0, and a*x otherwise.
C9_ParametricReluAsDocumented ==
  (op = "ParametricRelu" /\ AllFinite(arg)) =>
    \A i \in Elems(arg) :
      ret.data[i] = (IF arg.data[i] <= 0 THEN 0 ELSE (a * arg.data[i]) \div One)

\* C10: after init_weights_and_state returns, the weight is the float32
\* scalar zero, for every input signature and every weight held before.
C10_InitGivesScalarZero ==
  op = "init_weights_and_state" => weights = ZeroWeight

C10_Witness ==
  /\ op = "init_weights_and_state"
  /\ arg.shape # <<>>
  /\ arg.dtype # "float32"
  /\ Ready(prev)
  /\ prev.data # <<0>>
  /\ weights = ZeroWeight
====
